---- MODULE Spec2Model ----
(***************************************************************************)
(* Model of the Svakom Sam Neo MCP tools (piston, vacuum, combo, extendedO) *)
(* as one tool invocation driving a device whose commands may fail.         *)
(*                                                                          *)
(* A handler is an async function: it runs synchronously from one await to  *)
(* the next.  Every state of the model is a state in which each execution   *)
(* path is suspended at an await (a device command in flight or a timer),   *)
(* has finished, or has thrown.  An action is the resumption of one path:   *)
(* the reply of the device or the timer firing, followed by everything the  *)
(* path and the paths waiting on it do before they suspend again.           *)
(*                                                                          *)
(* JavaScript numbers are modelled as exact rationals <<n, d>>.             *)
(***************************************************************************)
EXTENDS Integers, Sequences, FiniteSets, TLC

\* ------------------------------------------------------------------ bounds
\* Largest step count offered to Piston and Combo (the schema allows 20..1000).
MaxSteps == 3
\* Steps of one half of the wave envelope (20 in the source, scaled down).
WaveSteps == 2
\* Device calls (a dispatcher call counts once) that may see a failure.
MaxFaults == 1
\* Largest pulse-cycle count exercised by the durations offered.
MaxCycles == 2
\* Longest ScalarCmd attribute list offered to the version detection.
MaxAttrs == 3
\* Invocations served one after the other on the same device.
MaxInvocations == 2
\* Significand bits of the binary floating-point numbers of the rounded
\* arithmetic (53 in a JavaScript number, scaled down).
Precision == 5

\* ------------------------------------------------------- program constants
pulseIntervalCombo == 500
linearDuration == 100
restoreSteps == 10

\* --------------------------------------------------------------- rationals
Abs(n) == IF n < 0 THEN -n ELSE n

RECURSIVE GCD(_, _)
GCD(a, b) == IF b = 0 THEN a ELSE GCD(b, a % b)

\* The number n/d (d > 0) in lowest terms.
Rat(n, d) == LET g == GCD(Abs(n), d) IN <<n \div g, d \div g>>

Num(n) == <<n, 1>>
Zero == <<0, 1>>
One == <<1, 1>>
Mul(x, y) == Rat(x[1] * y[1], x[2] * y[2])
Add(x, y) == Rat(x[1] * y[2] + y[1] * x[2], x[2] * y[2])
Sub(x, y) == Rat(x[1] * y[2] - y[1] * x[2], x[2] * y[2])
DivInt(x, k) == Rat(x[1], x[2] * k)
Leq(x, y) == x[1] * y[2] <= y[1] * x[2]

\* Math.sin(x * Math.PI) for 0 <= x <= 1, by Bhaskara's rational
\* approximation 16x(1-x) / (5 - 4x(1-x)); exact at 0, 1/6, 1/2, 5/6 and 1.
SinPi(x) ==
    LET p == Mul(x, Sub(One, x))
        num == Mul(Num(16), p)
        den == Sub(Num(5), Mul(Num(4), p))
    IN  Rat(num[1] * den[2], num[2] * den[1])

\* ------------------------------------------------------ rounded arithmetic
\* A JavaScript number is a binary floating-point number: the result of every
\* arithmetic operation is the exact result rounded to the nearest number
\* with Precision significand bits, ties to the even significand.  The
\* levels are far from the overflow and the subnormal range, so the exponent
\* is not bounded here.
RECURSIVE Quantum(_, _)
\* The spacing u (a power of two) of the representable numbers around x > 0:
\* 2^(Precision-1) * u <= x < 2^Precision * u.
Quantum(x, u) ==
    IF Leq(Mul(Num(2 ^ Precision), u), x) THEN Quantum(x, Mul(u, Num(2)))
    ELSE IF ~Leq(Mul(Num(2 ^ (Precision - 1)), u), x) THEN Quantum(x, DivInt(u, 2))
    ELSE u

\* The integer nearest to x >= 0, the even one of two equally near.
RoundEven(x) ==
    LET q == x[1] \div x[2]
        r == x[1] % x[2]
    IN  IF 2 * r < x[2] THEN q
        ELSE IF 2 * r > x[2] THEN q + 1
        ELSE IF q % 2 = 0 THEN q ELSE q + 1

\* The representable number nearest to x.
Fl(x) ==
    IF x[1] = 0 THEN Zero
    ELSE LET m == << Abs(x[1]), x[2] >>
             u == Quantum(m, One)
             k == RoundEven(Mul(m, << u[2], u[1] >>))
         IN  Mul(Num(IF x[1] < 0 THEN -k ELSE k), u)

\* ---------------------------------------------------------------- devices
ORIGINAL == "original"
NEO2_SERIES == "neo2_series"
\* Variant of the detection below that asks for at least one vibrator.
detectSamNeoVersionAnyVibrate(device) ==
    IF device.kind = "undefined" THEN "TypeError"
    ELSE LET scalarCmds == device.ScalarCmd
         IN  IF scalarCmds.kind # "array" THEN ORIGINAL
             ELSE IF \E k \in 1..Len(scalarCmds.items) :
                        scalarCmds.items[k].kind # "object"
             THEN "TypeError"
             ELSE LET actuatorTypes == [k \in 1..Len(scalarCmds.items) |->
                                          scalarCmds.items[k].ActuatorType]
                      hasConstrict == \E k \in 1..Len(actuatorTypes) :
                                         actuatorTypes[k] = "Constrict"
                      vibrateCount == Len(SelectSeq(actuatorTypes,
                                                    LAMBDA type : type = "Vibrate"))
                  IN  IF hasConstrict /\ vibrateCount >= 1 THEN NEO2_SERIES
                      ELSE ORIGINAL

\* detectSamNeoVersion (main.ts).  device.messageAttributes is a record
\* [kind, ScalarCmd]; ScalarCmd is a record [kind, items]; an item is a
\* record [kind, ActuatorType]; kind tells an object or an array from
\* undefined, null and other values.  Reading a property of undefined or of
\* null throws a TypeError.
detectSamNeoVersion(device) ==
    IF device.kind = "undefined" THEN "TypeError"
    ELSE LET scalarCmds == device.ScalarCmd
         IN  IF scalarCmds.kind # "array" THEN ORIGINAL
             ELSE IF \E k \in 1..Len(scalarCmds.items) :
                        scalarCmds.items[k].kind # "object"
             THEN "TypeError"
             ELSE LET actuatorTypes == [k \in 1..Len(scalarCmds.items) |->
                                          scalarCmds.items[k].ActuatorType]
                      hasConstrict == \E k \in 1..Len(actuatorTypes) :
                                         actuatorTypes[k] = "Constrict"
                      vibrateCount == Len(SelectSeq(actuatorTypes,
                                                    LAMBDA type : type = "Vibrate"))
                  IN  IF hasConstrict /\ vibrateCount = 1 THEN NEO2_SERIES
                      ELSE IF vibrateCount >= 2 THEN ORIGINAL
                      ELSE ORIGINAL

SamNeoVersion == {ORIGINAL, NEO2_SERIES}

Threads == {"main", "vib", "vac"}

\* --------------------------------------------------- handler instructions
\* One awaited statement of a handler.  fn names the helper through which a
\* device command is issued ("device" for a direct call); assign says that
\* the helper's return value is stored in successfulApproach.
Ins(op, fn, index, act, a, b, assign) ==
    [op |-> op, fn |-> fn, index |-> index, act |-> act, a |-> a, b |-> b,
     assign |-> assign]

Scalar(index, value, act) == Ins("scalar", "device", index, act, value, Zero, FALSE)
Linear(value, ms) == Ins("linear", "device", -1, "Linear", value, Num(ms), FALSE)
Vibrate(v1, v2) == Ins("vibrate", "device", -1, "Vibrate", v1, v2, FALSE)
Stop == Ins("stop", "device", -1, "none", Zero, Zero, FALSE)
Timeout(ms) == Ins("sleep", "setTimeout", -1, "none", ms, Zero, FALSE)
PromiseAll == Ins("join", "Promise.all", -1, "none", Zero, Zero, FALSE)
Call(fn, v1, v2, assign) == Ins("call", fn, -1, "none", v1, v2, assign)

\* Concatenation of the sequences f[lo], f[lo+1], ..., f[hi].
RECURSIVE ForLoop(_, _, _)
ForLoop(f, lo, hi) == IF lo > hi THEN <<>> ELSE f[lo] \o ForLoop(f, lo + 1, hi)

\* ------------------------------------------------- the fallback dispatchers
\* The approaches array of executeNeo2VacuumControl (vacuum.ts).
VacuumApproaches(intensity) ==
    << [cmd |-> Scalar(1, intensity, "Constrict"), label |-> "Constrict"],
       [cmd |-> Linear(intensity, linearDuration), label |-> "Linear"],
       [cmd |-> Scalar(1, intensity, "Inflate"), label |-> "Inflate-Index1"],
       [cmd |-> Scalar(0, intensity, "Inflate"), label |-> "Inflate-Index0"] >>

\* A variant with the Inflate encodings ahead of Constrict and Linear; the
\* fallback order property tells it from the source's array.
ComboApproachesInflateFirst(intensity) ==
    << [cmd |-> Scalar(1, intensity, "Inflate"), label |-> "Inflate-Index1"],
       [cmd |-> Scalar(0, intensity, "Inflate"), label |-> "Inflate-Index0"],
       [cmd |-> Scalar(1, intensity, "Constrict"), label |-> "Constrict"],
       [cmd |-> Linear(intensity, linearDuration), label |-> "Linear"] >>

\* The approaches array of executeNeo2ComboVacuumControl (combo.ts).
ComboApproaches(intensity) ==
    << [cmd |-> Scalar(1, intensity, "Constrict"), label |-> "Constrict"],
       [cmd |-> Linear(intensity, linearDuration), label |-> "Linear"],
       [cmd |-> Scalar(1, intensity, "Inflate"), label |-> "Inflate-Index1"],
       [cmd |-> Scalar(0, intensity, "Inflate"), label |-> "Inflate-Index0"] >>

\* A variant of the copy in extendedO.ts whose Constrict approach addresses
\* index 0.
ExtendedOApproachesIndexZero(intensity) ==
    << [cmd |-> Scalar(0, intensity, "Constrict"), label |-> "Constrict"],
       [cmd |-> Linear(intensity, linearDuration), label |-> "Linear"],
       [cmd |-> Scalar(1, intensity, "Inflate"), label |-> "Inflate-Index1"],
       [cmd |-> Scalar(0, intensity, "Inflate"), label |-> "Inflate-Index0"] >>

\* The approaches array of executeNeo2VacuumControl (extendedO.ts).
ExtendedOApproaches(intensity) ==
    << [cmd |-> Scalar(1, intensity, "Constrict"), label |-> "Constrict"],
       [cmd |-> Linear(intensity, linearDuration), label |-> "Linear"],
       [cmd |-> Scalar(1, intensity, "Inflate"), label |-> "Inflate-Index1"],
       [cmd |-> Scalar(0, intensity, "Inflate"), label |-> "Inflate-Index0"] >>

Neo2Helpers ==
    {"vacuum.executeNeo2VacuumControl", "combo.executeNeo2ComboVacuumControl",
     "extendedO.executeNeo2VacuumControl"}

OriginalHelpers ==
    {"vacuum.executeOriginalVacuumControl", "combo.executeOriginalComboControl"}

approaches(fn, intensity) ==
    CASE fn = "vacuum.executeNeo2VacuumControl" -> VacuumApproaches(intensity)
      [] fn = "combo.executeNeo2ComboVacuumControl" -> ComboApproaches(intensity)
      [] fn = "extendedO.executeNeo2VacuumControl" -> ExtendedOApproaches(intensity)

\* The message of the Error a helper throws when it gives up.
HelperError(fn) ==
    CASE fn = "vacuum.executeNeo2VacuumControl" ->
             "All Neo2 vacuum control approaches failed"
      [] fn = "combo.executeNeo2ComboVacuumControl" ->
             "All Neo2 combo vacuum control approaches failed"
      [] fn = "extendedO.executeNeo2VacuumControl" ->
             "All Neo2 vacuum control approaches failed"
      [] fn = "vacuum.executeOriginalVacuumControl" ->
             "Original Sam Neo vacuum control failed"
      [] fn = "combo.executeOriginalComboControl" ->
             "Original Sam Neo combo control failed"

\* The device command and the return value of the two Original helpers.
executeOriginalVacuumControl(intensity) ==
    [cmd |-> Vibrate(Zero, intensity), label |-> "OriginalVibrate"]

executeOriginalComboControl(vibrationLevel, vacuumLevel) ==
    [cmd |-> Vibrate(vibrationLevel, vacuumLevel), label |-> "OriginalCombo"]

\* What a helper call sends first (a dispatcher: its approach 1).
HelperAttempt(ins, k) ==
    CASE ins.fn \in Neo2Helpers -> approaches(ins.fn, ins.a)[k]
      [] ins.fn = "vacuum.executeOriginalVacuumControl" ->
             executeOriginalVacuumControl(ins.a)
      [] ins.fn = "combo.executeOriginalComboControl" ->
             executeOriginalComboControl(ins.a, ins.b)

\* The reason with which the device rejects a command.
DeviceError(cmd) ==
    CASE cmd.op = "scalar" /\ cmd.act = "Vibrate" -> "Vibrate rejected"
      [] cmd.op = "scalar" /\ cmd.act = "Constrict" -> "Constrict rejected"
      [] cmd.op = "scalar" /\ cmd.act = "Inflate" /\ cmd.index = 1 ->
             "Inflate@1 rejected"
      [] cmd.op = "scalar" /\ cmd.act = "Inflate" /\ cmd.index = 0 ->
             "Inflate@0 rejected"
      [] cmd.op = "linear" -> "LinearCmd rejected"
      [] cmd.op = "vibrate" -> "VibrateCmd rejected"
      [] cmd.op = "stop" -> "StopDeviceCmd rejected"

FallbackNotice ==
    "Original Sam Neo doesn't support independent mode, using synchronized instead"

\* ------------------------------------------------------------ the handlers
\* Each handler is the sequence of its awaited statements, in program order,
\* for the arguments a and the detected device version ver.

\* A variant of the Piston loop that counts from 1 to steps and so reaches
\* the full level.
PistonHandlerFromOne(a, ver) ==
    LET diff == Rat(1, a.steps)
        delay == Rat(a.duration, a.steps)
        step == [i \in 1..a.steps |->
                   LET intensity == Mul(diff, Num(i))
                   IN  IF ver = ORIGINAL
                       THEN << Vibrate(a.vibrationPower, intensity), Timeout(delay) >>
                       ELSE << Scalar(0, Mul(intensity, a.vibrationPower), "Vibrate"),
                               Timeout(delay) >>]
    IN  ForLoop(step, 1, a.steps) \o << Stop >>

\* A variant of the Piston handler that drives the second channel on every
\* device version and halts with a zero command before the stop.
PistonHandlerBothChannels(a, ver) ==
    LET diff == Rat(1, a.steps)
        delay == Rat(a.duration, a.steps)
        step == [i \in 0..(a.steps - 1) |->
                   << Vibrate(a.vibrationPower, Mul(diff, Num(i))), Timeout(delay) >>]
    IN  ForLoop(step, 0, a.steps - 1) \o << Vibrate(Zero, Zero), Stop >>

\* Svakom-Sam-Neo-Piston (piston.ts).
PistonHandler(a, ver) ==
    LET diff == Rat(1, a.steps)
        delay == Rat(a.duration, a.steps)
        step == [i \in 0..(a.steps - 1) |->
                   LET intensity == Mul(diff, Num(i))
                   IN  IF ver = ORIGINAL
                       THEN << Vibrate(a.vibrationPower, intensity), Timeout(delay) >>
                       ELSE << Scalar(0, Mul(intensity, a.vibrationPower), "Vibrate"),
                               Timeout(delay) >>]
    IN  ForLoop(step, 0, a.steps - 1) \o << Stop >>

\* A variant of the Vacuum handler whose pulse pattern rounds the number of
\* cycles up instead of down.
VacuumHandlerRoundUp(a, ver) ==
    LET executeVacuumControl ==
            IF ver = ORIGINAL THEN "vacuum.executeOriginalVacuumControl"
                              ELSE "vacuum.executeNeo2VacuumControl"
        cycles == (a.duration + a.pulseInterval * 2 - 1) \div (a.pulseInterval * 2)
        pulse == [i \in 0..(cycles - 1) |->
                    << Call(executeVacuumControl, a.intensity, Zero, TRUE),
                       Timeout(Num(a.pulseInterval)),
                       Call(executeVacuumControl, Zero, Zero, FALSE),
                       Timeout(Num(a.pulseInterval)) >>]
        steps == WaveSteps
        stepDuration == Rat(a.duration, steps * 2)
        increase == [i \in 0..steps |->
                       << Call(executeVacuumControl,
                               Mul(Rat(i, steps), a.intensity), Zero, TRUE),
                          Timeout(stepDuration) >>]
        decrease == [k \in 0..steps |->
                       << Call(executeVacuumControl,
                               Mul(Rat(steps - k, steps), a.intensity), Zero, FALSE),
                          Timeout(stepDuration) >>]
        body == CASE a.pattern = "constant" ->
                       << Call(executeVacuumControl, a.intensity, Zero, TRUE),
                          Timeout(Num(a.duration)) >>
                  [] a.pattern = "pulse" -> ForLoop(pulse, 0, cycles - 1)
                  [] a.pattern = "wave" ->
                       ForLoop(increase, 0, steps) \o ForLoop(decrease, 0, steps)
    IN  body \o << Call(executeVacuumControl, Zero, Zero, FALSE) >>

\* Svakom-Sam-Neo-Vacuum (vacuum.ts).
VacuumHandler(a, ver) ==
    LET executeVacuumControl ==
            IF ver = ORIGINAL THEN "vacuum.executeOriginalVacuumControl"
                              ELSE "vacuum.executeNeo2VacuumControl"
        cycles == a.duration \div (a.pulseInterval * 2)
        pulse == [i \in 0..(cycles - 1) |->
                    << Call(executeVacuumControl, a.intensity, Zero, TRUE),
                       Timeout(Num(a.pulseInterval)),
                       Call(executeVacuumControl, Zero, Zero, FALSE),
                       Timeout(Num(a.pulseInterval)) >>]
        steps == WaveSteps
        stepDuration == Rat(a.duration, steps * 2)
        increase == [i \in 0..steps |->
                       << Call(executeVacuumControl,
                               Mul(Rat(i, steps), a.intensity), Zero, TRUE),
                          Timeout(stepDuration) >>]
        decrease == [k \in 0..steps |->
                       << Call(executeVacuumControl,
                               Mul(Rat(steps - k, steps), a.intensity), Zero, FALSE),
                          Timeout(stepDuration) >>]
        body == CASE a.pattern = "constant" ->
                       << Call(executeVacuumControl, a.intensity, Zero, TRUE),
                          Timeout(Num(a.duration)) >>
                  [] a.pattern = "pulse" -> ForLoop(pulse, 0, cycles - 1)
                  [] a.pattern = "wave" ->
                       ForLoop(increase, 0, steps) \o ForLoop(decrease, 0, steps)
    IN  body \o << Call(executeVacuumControl, Zero, Zero, FALSE) >>

\* The vibration path of the independent mode (combo.ts, vibrationPromise).
vibrationPromise(a) ==
    LET diff == Rat(1, a.steps)
        delay == Rat(a.duration, a.steps)
        step == [i \in 0..(a.steps - 1) |->
                   << Scalar(0, Mul(Mul(diff, Num(i)), a.vibrationPower), "Vibrate"),
                      Timeout(delay) >>]
    IN  ForLoop(step, 0, a.steps - 1)

\* A variant of the vacuum path whose wave does not repeat its peak: the
\* way down starts one step below it.
vacuumPromiseSinglePeak(a) ==
    LET fn == "combo.executeNeo2ComboVacuumControl"
        pulseInterval == pulseIntervalCombo
        cycles == a.duration \div (pulseInterval * 2)
        pulse == [i \in 0..(cycles - 1) |->
                    << Call(fn, a.vacuumIntensity, Zero, FALSE),
                       Timeout(Num(pulseInterval)),
                       Call(fn, Zero, Zero, FALSE),
                       Timeout(Num(pulseInterval)) >>]
        waveSteps == WaveSteps
        stepDuration == Rat(a.duration, waveSteps * 2)
        increase == [i \in 0..waveSteps |->
                       << Call(fn, Mul(Rat(i, waveSteps), a.vacuumIntensity),
                               Zero, FALSE),
                          Timeout(stepDuration) >>]
        decrease == [k \in 0..waveSteps |->
                       << Call(fn, Mul(Rat(waveSteps - k, waveSteps),
                                       a.vacuumIntensity), Zero, FALSE),
                          Timeout(stepDuration) >>]
    IN  CASE a.vacuumPattern = "constant" ->
               << Call(fn, a.vacuumIntensity, Zero, FALSE),
                  Timeout(Num(a.duration)) >>
          [] a.vacuumPattern = "pulse" -> ForLoop(pulse, 0, cycles - 1)
          [] a.vacuumPattern = "wave" ->
               ForLoop(increase, 0, waveSteps) \o ForLoop(decrease, 1, waveSteps)

\* The vacuum path of the independent mode (combo.ts, vacuumPromise).
vacuumPromise(a) ==
    LET fn == "combo.executeNeo2ComboVacuumControl"
        pulseInterval == pulseIntervalCombo
        cycles == a.duration \div (pulseInterval * 2)
        pulse == [i \in 0..(cycles - 1) |->
                    << Call(fn, a.vacuumIntensity, Zero, FALSE),
                       Timeout(Num(pulseInterval)),
                       Call(fn, Zero, Zero, FALSE),
                       Timeout(Num(pulseInterval)) >>]
        waveSteps == WaveSteps
        stepDuration == Rat(a.duration, waveSteps * 2)
        increase == [i \in 0..waveSteps |->
                       << Call(fn, Mul(Rat(i, waveSteps), a.vacuumIntensity),
                               Zero, FALSE),
                          Timeout(stepDuration) >>]
        decrease == [k \in 0..waveSteps |->
                       << Call(fn, Mul(Rat(waveSteps - k, waveSteps),
                                       a.vacuumIntensity), Zero, FALSE),
                          Timeout(stepDuration) >>]
    IN  CASE a.vacuumPattern = "constant" ->
               << Call(fn, a.vacuumIntensity, Zero, FALSE),
                  Timeout(Num(a.duration)) >>
          [] a.vacuumPattern = "pulse" -> ForLoop(pulse, 0, cycles - 1)
          [] a.vacuumPattern = "wave" ->
               ForLoop(increase, 0, waveSteps) \o ForLoop(decrease, 0, waveSteps)

\* A variant of the synchronized loop that counts from 1 to steps.
ComboSynchronizedFromOne(a, ver) ==
    LET diff == Rat(1, a.steps)
        delay == Rat(a.duration, a.steps)
        step == [i \in 1..a.steps |->
                   LET intensity == Mul(diff, Num(i))
                   IN  IF ver = ORIGINAL
                       THEN << Call("combo.executeOriginalComboControl",
                                    Mul(intensity, a.vibrationPower),
                                    Mul(intensity, a.vacuumIntensity), FALSE),
                               Timeout(delay) >>
                       ELSE << Scalar(0, Mul(intensity, a.vibrationPower), "Vibrate"),
                               Call("combo.executeNeo2ComboVacuumControl",
                                    Mul(intensity, a.vacuumIntensity), Zero, FALSE),
                               Timeout(delay) >>]
    IN  ForLoop(step, 1, a.steps)

\* A variant of the alternating loop whose vacuum follows the vibration
\* fraction instead of its complement.
ComboAlternatingNoComplement(a, ver) ==
    LET diff == Rat(1, a.steps)
        delay == Rat(a.duration, a.steps)
        step == [i \in 0..(a.steps - 1) |->
                   LET intensity == Mul(diff, Num(i))
                       vibrationLevel == Mul(intensity, a.vibrationPower)
                       vacuumLevel == Mul(intensity, a.vacuumIntensity)
                   IN  IF ver = ORIGINAL
                       THEN << Call("combo.executeOriginalComboControl",
                                    vibrationLevel, vacuumLevel, FALSE),
                               Timeout(delay) >>
                       ELSE << Scalar(0, vibrationLevel, "Vibrate"),
                               Call("combo.executeNeo2ComboVacuumControl",
                                    vacuumLevel, Zero, FALSE),
                               Timeout(delay) >>]
    IN  ForLoop(step, 0, a.steps - 1)

\* Svakom-Sam-Neo-Combo (combo.ts): the synchronized loop.
ComboSynchronized(a, ver) ==
    LET diff == Rat(1, a.steps)
        delay == Rat(a.duration, a.steps)
        step == [i \in 0..(a.steps - 1) |->
                   LET intensity == Mul(diff, Num(i))
                   IN  IF ver = ORIGINAL
                       THEN << Call("combo.executeOriginalComboControl",
                                    Mul(intensity, a.vibrationPower),
                                    Mul(intensity, a.vacuumIntensity), FALSE),
                               Timeout(delay) >>
                       ELSE << Scalar(0, Mul(intensity, a.vibrationPower), "Vibrate"),
                               Call("combo.executeNeo2ComboVacuumControl",
                                    Mul(intensity, a.vacuumIntensity), Zero, FALSE),
                               Timeout(delay) >>]
    IN  ForLoop(step, 0, a.steps - 1)

\* The alternating loop.
ComboAlternating(a, ver) ==
    LET diff == Rat(1, a.steps)
        delay == Rat(a.duration, a.steps)
        step == [i \in 0..(a.steps - 1) |->
                   LET intensity == Mul(diff, Num(i))
                       vibrationLevel == Mul(intensity, a.vibrationPower)
                       vacuumLevel == Mul(Sub(One, intensity), a.vacuumIntensity)
                   IN  IF ver = ORIGINAL
                       THEN << Call("combo.executeOriginalComboControl",
                                    vibrationLevel, vacuumLevel, FALSE),
                               Timeout(delay) >>
                       ELSE << Scalar(0, vibrationLevel, "Vibrate"),
                               Call("combo.executeNeo2ComboVacuumControl",
                                    vacuumLevel, Zero, FALSE),
                               Timeout(delay) >>]
    IN  ForLoop(step, 0, a.steps - 1)

\* The independent mode on an Original device: one loop, combined commands.
ComboIndependentOriginal(a) ==
    LET diff == Rat(1, a.steps)
        delay == Rat(a.duration, a.steps)
        step == [i \in 0..(a.steps - 1) |->
                   LET intensity == Mul(diff, Num(i))
                       currentVacuum ==
                           IF a.vacuumPattern = "wave"
                           THEN Mul(SinPi(Rat(i, a.steps)), a.vacuumIntensity)
                           ELSE a.vacuumIntensity
                   IN  << Call("combo.executeOriginalComboControl",
                               Mul(intensity, a.vibrationPower), currentVacuum, FALSE),
                          Timeout(delay) >>]
    IN  ForLoop(step, 0, a.steps - 1)

\* The independent mode on a Neo2 device: both paths are started and awaited.
ComboIndependentNeo2 == << PromiseAll >>

\* "Stop both actuators".
ComboStop(ver) ==
    IF ver = ORIGINAL
    THEN << Vibrate(Zero, Zero) >>
    ELSE << Scalar(0, Zero, "Vibrate"),
            Call("combo.executeNeo2ComboVacuumControl", Zero, Zero, FALSE) >>

ComboHandler(a, ver) ==
    (CASE a.syncMode = "synchronized" -> ComboSynchronized(a, ver)
       [] a.syncMode = "alternating" -> ComboAlternating(a, ver)
       [] a.syncMode = "independent" /\ ver = ORIGINAL -> ComboIndependentOriginal(a)
       [] a.syncMode = "independent" /\ ver # ORIGINAL -> ComboIndependentNeo2)
    \o ComboStop(ver)

\* Svakom-Sam-Neo-ExtendedO (extendedO.ts): both channels are set, by one
\* combined command or by a Vibrate command and a dispatcher call.
ExtendedOSet(ver, vibrationLevel, vacuumLevel) ==
    IF ver = ORIGINAL
    THEN << Vibrate(vibrationLevel, vacuumLevel) >>
    ELSE << Scalar(0, vibrationLevel, "Vibrate"),
            Call("extendedO.executeNeo2VacuumControl", vacuumLevel, Zero, FALSE) >>

\* A variant that holds first and reduces afterwards.
ExtendedOHoldDrop(a, ver) ==
    << Timeout(Num(a.holdDuration)) >>
    \o ExtendedOSet(ver, a.minimumLevel, a.minimumLevel)

\* A variant of the restore whose gradual branch counts from 0 to steps - 1,
\* and so ends one step short of the levels before the reduction.
ExtendedORestoreFromZero(a, ver) ==
    LET steps == restoreSteps
        stepDelay == Rat(a.restoreDuration, steps)
        vibrationStep == DivInt(Sub(a.currentVibration, a.minimumLevel), steps)
        vacuumStep == DivInt(Sub(a.currentVacuum, a.minimumLevel), steps)
        gradual == [i \in 0..(steps - 1) |->
                      ExtendedOSet(ver,
                                   Add(a.minimumLevel, Mul(vibrationStep, Num(i))),
                                   Add(a.minimumLevel, Mul(vacuumStep, Num(i))))
                      \o << Timeout(stepDelay) >>]
    IN  IF a.restoreDuration = 0
        THEN ExtendedOSet(ver, a.currentVibration, a.currentVacuum)
        ELSE ForLoop(gradual, 0, steps - 1)

\* Step 1 and step 2: reduce to the minimum level and hold.
ExtendedODropHold(a, ver) ==
    ExtendedOSet(ver, a.minimumLevel, a.minimumLevel)
    \o << Timeout(Num(a.holdDuration)) >>

\* Step 3: restore, instantly or gradually.
ExtendedORestore(a, ver) ==
    LET steps == restoreSteps
        stepDelay == Rat(a.restoreDuration, steps)
        vibrationStep == DivInt(Sub(a.currentVibration, a.minimumLevel), steps)
        vacuumStep == DivInt(Sub(a.currentVacuum, a.minimumLevel), steps)
        gradual == [i \in 1..steps |->
                      ExtendedOSet(ver,
                                   Add(a.minimumLevel, Mul(vibrationStep, Num(i))),
                                   Add(a.minimumLevel, Mul(vacuumStep, Num(i))))
                      \o << Timeout(stepDelay) >>]
    IN  IF a.restoreDuration = 0
        THEN ExtendedOSet(ver, a.currentVibration, a.currentVacuum)
        ELSE ForLoop(gradual, 1, steps)

ExtendedOHandler(a, ver) == ExtendedODropHold(a, ver) \o ExtendedORestore(a, ver)

\* Step 3 as the JavaScript arithmetic computes it: the difference, the
\* quotient, the product and the sum are each rounded.
restoreLevel(minimumLevel, current, steps, i) ==
    LET step == Fl(DivInt(Fl(Sub(current, minimumLevel)), steps))
    IN  Fl(Add(minimumLevel, Fl(Mul(step, Num(i)))))

ExtendedORestoreRounded(a, ver) ==
    LET steps == restoreSteps
        stepDelay == Rat(a.restoreDuration, steps)
        gradual == [i \in 1..steps |->
                      ExtendedOSet(ver,
                                   restoreLevel(a.minimumLevel, a.currentVibration, steps, i),
                                   restoreLevel(a.minimumLevel, a.currentVacuum, steps, i))
                      \o << Timeout(stepDelay) >>]
    IN  IF a.restoreDuration = 0
        THEN ExtendedOSet(ver, a.currentVibration, a.currentVacuum)
        ELSE ForLoop(gradual, 1, steps)

ExtendedOHandlerRounded(a, ver) ==
    ExtendedODropHold(a, ver) \o ExtendedORestoreRounded(a, ver)

\* ------------------------------------------------------------------- state
VARIABLES
    tool,                \* the tool invoked
    messageAttributes,   \* the attributes the device reported
    startup,             \* main(): connected, serving, or exited on an error
    deviceVersion,       \* the version detected at startup
    args,                \* the arguments of the invocation
    status,              \* per path: idle, awaiting, sleeping, joining, done,
                         \*           failed, returned
    ip,                  \* per path: the statement it is suspended at
    att,                 \* per path: the approach in flight (0: a direct command)
    prog,                \* per path: the statements it executes, fixed on entry
    log,                 \* per path: the commands it sent and the timers it set
    rets,                \* per helper call, in call order: its label or "throw"
    successfulApproach,  \* the variable of that name in the Vacuum handler
    response,            \* what the handler returned
    console,             \* the warnings and failure reasons written to stderr
    overlap,             \* history: the paths that sent a command while the
                         \*          other path was in a timer
    faults,              \* device calls that may still see a failure
    channels,            \* the levels the device was last told and accepted
    served,              \* the outcomes of the invocations served before
    abandoned            \* the caller has given up the invocation in progress

vars == << messageAttributes, startup, tool, deviceVersion, args, prog, status, ip, att, log, rets,
           successfulApproach, response, console, overlap, faults, channels,
           served, abandoned >>

Program(tl, a, ver, t) ==
    CASE t = "main" /\ tl = "Piston" -> PistonHandler(a, ver)
      [] t = "main" /\ tl = "Vacuum" -> VacuumHandler(a, ver)
      [] t = "main" /\ tl = "Combo" -> ComboHandler(a, ver)
      [] t = "main" /\ tl = "ExtendedO" -> ExtendedOHandler(a, ver)
      [] t = "vib" /\ tl = "Combo" /\ a.syncMode = "independent" /\ ver # ORIGINAL ->
             vibrationPromise(a)
      [] t = "vac" /\ tl = "Combo" /\ a.syncMode = "independent" /\ ver # ORIGINAL ->
             vacuumPromise(a)
      [] OTHER -> << >>

Prog(t) == prog[t]

\* The state of the invocation as one record, for the operators below.
Now ==
    [prog |-> prog, log |-> log, status |-> status, ip |-> ip, att |-> att,
     rets |-> rets, successfulApproach |-> successfulApproach,
     response |-> response, console |-> console, overlap |-> overlap,
     channels |-> channels]

Becomes(s) ==
    /\ log' = s.log
    /\ channels' = s.channels
    /\ status' = s.status
    /\ ip' = s.ip
    /\ att' = s.att
    /\ rets' = s.rets
    /\ successfulApproach' = s.successfulApproach
    /\ response' = s.response
    /\ console' = s.console
    /\ overlap' = s.overlap
    /\ UNCHANGED << messageAttributes, startup, tool, deviceVersion, args, prog,
                    served, abandoned >>

Entry(cmd, fn, t, call, ok) ==
    [op |-> cmd.op, index |-> cmd.index, act |-> cmd.act, a |-> cmd.a, b |-> cmd.b,
     fn |-> fn, th |-> t, call |-> call, ok |-> ok]

\* The paths that have sent a command during a timer of the other path, once
\* path t sends one.
Sibling(t) == IF t = "vib" THEN "vac" ELSE "vib"
Overlap(s, t) ==
    IF t # "main" /\ s.status[Sibling(t)] = "sleeping"
    THEN s.overlap \cup {t} ELSE s.overlap

\* The levels of the device once it has accepted command e.
Accept(ch, e) ==
    CASE e.op = "vibrate" -> [vibration |-> e.a, vacuum |-> e.b]
      [] e.op = "stop" -> [vibration |-> Zero, vacuum |-> Zero]
      [] e.op = "scalar" /\ e.act = "Vibrate" -> [ch EXCEPT !.vibration = e.a]
      [] OTHER -> [ch EXCEPT !.vacuum = e.a]

\* The command of path t that is in flight.
Pending(s, t) == Len(s.log[t])

\* ------------------------------------------------------------- responses
SuccessResponse(s) ==
    [kind |-> "ok",
     text |-> CASE tool = "Piston" ->
                     << "Piston motion completed", "device:", deviceVersion >>
                [] tool = "Vacuum" ->
                     << "Vacuum operation completed", "method:",
                        s.successfulApproach, "device:", deviceVersion >>
                [] tool = "Combo" ->
                     << "Combo stimulation completed", "mode:", args.syncMode,
                        "device:", deviceVersion >>
                [] tool = "ExtendedO" ->
                     << "Extended O completed", "device:", deviceVersion >>]

ErrorResponse(e) ==
    [kind |-> "error",
     text |-> IF tool = "Vacuum"
              THEN << "Vacuum control failed. Device capabilities:", "Error:", e >>
              ELSE << "Error:", e >>]

\* ------------------------------------------------ running to the next await
\* A variant of Issue whose dispatcher starts at the approach that succeeded
\* in the call before.
IssueMemoized(s, t, k) ==
    LET ins == s.prog[t][k]
        last == IF Len(s.rets) > 0 THEN s.rets[Len(s.rets)] ELSE "throw"
        first == IF ins.fn \in Neo2Helpers /\ last # "throw"
                 THEN CHOOSE i \in 1..4 : approaches(ins.fn, Zero)[i].label = last
                 ELSE 1
    IN  CASE ins.op = "sleep" ->
               [s EXCEPT !.log[t] = Append(@, Entry(ins, ins.fn, t, 0, "ok")),
                         !.status[t] = "sleeping", !.ip[t] = k]
          [] ins.op = "join" ->
               [s EXCEPT !.status[t] = "joining", !.ip[t] = k]
          [] ins.op = "call" ->
               [s EXCEPT !.log[t] = Append(@, Entry(HelperAttempt(ins, first).cmd,
                                                 ins.fn, t, Len(s.rets) + 1,
                                                 "pending")),
                         !.status[t] = "awaiting", !.ip[t] = k, !.att[t] = first,
                         !.overlap = Overlap(s, t)]
          [] OTHER ->
               [s EXCEPT !.log[t] = Append(@, Entry(ins, ins.fn, t, 0, "pending")),
                         !.status[t] = "awaiting", !.ip[t] = k, !.att[t] = 0,
                         !.overlap = Overlap(s, t)]

\* Path t executes statement k, which suspends it.
Issue(s, t, k) ==
    LET ins == s.prog[t][k]
    IN  CASE ins.op = "sleep" ->
               [s EXCEPT !.log[t] = Append(@, Entry(ins, ins.fn, t, 0, "ok")),
                         !.status[t] = "sleeping", !.ip[t] = k]
          [] ins.op = "join" ->
               [s EXCEPT !.status[t] = "joining", !.ip[t] = k]
          [] ins.op = "call" ->
               [s EXCEPT !.log[t] = Append(@, Entry(HelperAttempt(ins, 1).cmd, ins.fn, t,
                                                 Len(s.rets) + 1, "pending")),
                         !.status[t] = "awaiting", !.ip[t] = k, !.att[t] = 1,
                         !.overlap = Overlap(s, t)]
          [] OTHER ->
               [s EXCEPT !.log[t] = Append(@, Entry(ins, ins.fn, t, 0, "pending")),
                         !.status[t] = "awaiting", !.ip[t] = k, !.att[t] = 0,
                         !.overlap = Overlap(s, t)]

\* The handler returns its success response.
Return(s) ==
    [s EXCEPT !.status["main"] = "returned", !.response = SuccessResponse(s)]

\* A variant of the catch block that lets the error go without a response.
CatchRethrow(s, e) ==
    [s EXCEPT !.status["main"] = "returned"]

\* The catch block of the handler.
Catch(s, e) ==
    [s EXCEPT !.status["main"] = "returned", !.response = ErrorResponse(e)]

ContinueMain(s, k) ==
    IF k <= Len(s.prog["main"]) THEN Issue(s, "main", k) ELSE Return(s)

\* A variant of the join that is resolved by the first fulfilled path.
PromiseAnySettled(s) ==
    s.status["vib"] = "done" \/ s.status["vac"] = "done"

\* Promise.all: resolved once both paths are fulfilled, rejected at the first
\* rejection; the handler awaiting it resumes in the same turn.
PromiseAllSettled(s) ==
    s.status["vib"] = "done" /\ s.status["vac"] = "done"

ChildDone(s, t) ==
    LET s1 == [s EXCEPT !.status[t] = "done"]
    IN  IF s1.status["main"] = "joining" /\ PromiseAllSettled(s1)
        THEN ContinueMain(s1, s1.ip["main"] + 1)
        ELSE s1

\* A variant in which the rejection of a path is not seen by the join.
ChildFailedUnobserved(s, t, e) == [s EXCEPT !.status[t] = "failed"]

ChildFailed(s, t, e) ==
    LET s1 == [s EXCEPT !.status[t] = "failed"]
    IN  IF s1.status["main"] = "joining" THEN Catch(s1, e) ELSE s1

\* Path t goes on with statement k.
Continue(s, t, k) ==
    IF t = "main" THEN ContinueMain(s, k)
    ELSE IF k <= Len(s.prog[t]) THEN Issue(s, t, k)
    ELSE ChildDone(s, t)

\* A variant in which the error is swallowed and the path goes on with its
\* next statement.
ThrowSwallowed(s, t, e) == Continue(s, t, s.ip[t] + 1)

\* An error e propagates out of path t.
Throw(s, t, e) ==
    IF t = "main" THEN Catch(s, e) ELSE ChildFailed(s, t, e)

\* The device answers the command in flight of path t.
Settle(s, t, ok) ==
    [s EXCEPT !.log[t][Pending(s, t)].ok = ok,
              !.channels = IF ok = "ok" THEN Accept(@, s.log[t][Pending(s, t)])
                           ELSE @]

\* ------------------------------------------------------------------ inputs
Levels == {Rat(1, 2), One}
StepsSet == 2..MaxSteps
Durations == {1000 * c : c \in 1..MaxCycles}
Tools == {"Piston", "Vacuum", "Combo", "ExtendedO"}

\* The schema defaults; a tool reads only its own parameters.
Defaults ==
    [duration |-> 1000, steps |-> 2, vibrationPower |-> Rat(1, 2),
     vacuumIntensity |-> Rat(1, 2), syncMode |-> "synchronized",
     vacuumPattern |-> "constant", intensity |-> Rat(1, 2),
     pattern |-> "constant", pulseInterval |-> 500,
     currentVibration |-> Zero, currentVacuum |-> Zero,
     holdDuration |-> 10000, minimumLevel |-> Rat(1, 10),
     restoreDuration |-> 500]

PistonArgs ==
    {[Defaults EXCEPT !.steps = n, !.vibrationPower = p] :
        n \in StepsSet, p \in Levels \cup {Zero}}

VacuumArgs ==
    {a \in {[Defaults EXCEPT !.intensity = v, !.duration = d, !.pattern = pt,
                             !.pulseInterval = p] :
               v \in Levels, d \in {100, 1500} \cup Durations,
               pt \in {"constant", "pulse", "wave"}, p \in {400, 500}} :
        a.pattern # "pulse" => a.pulseInterval = 500}

\* vacuumPattern is read in the independent mode only, and the duration
\* decides more than the length of the timers in its pulse pattern only.
ComboArgs ==
    {a \in {[Defaults EXCEPT !.duration = d, !.steps = n, !.vibrationPower = pv[1],
                             !.vacuumIntensity = pv[2], !.syncMode = m,
                             !.vacuumPattern = pt] :
               d \in Durations, n \in StepsSet,
               pv \in {<< One, Rat(1, 2) >>, << Rat(1, 2), One >>},
               m \in {"synchronized", "alternating", "independent"},
               pt \in {"constant", "pulse", "wave"}} :
        /\ a.syncMode # "independent" => a.vacuumPattern = "constant"
        /\ a.vacuumPattern # "pulse" => a.duration = 1000}

ExtendedOArgs ==
    {[Defaults EXCEPT !.currentVibration = cv[1], !.currentVacuum = cv[2],
                      !.minimumLevel = m, !.restoreDuration = r] :
        cv \in {<< Rat(1, 2), One >>, << One, Zero >>, << Zero, Rat(1, 2) >>},
        m \in {Rat(1, 10), Rat(3, 10)}, r \in {0, 500}}

ArgsOf(tl) ==
    CASE tl = "Piston" -> PistonArgs
      [] tl = "Vacuum" -> VacuumArgs
      [] tl = "Combo" -> ComboArgs
      [] tl = "ExtendedO" -> ExtendedOArgs

\* -------------------------------------------------------------------- Init
\* The handler has been entered and has run to its first await; in the
\* independent mode both paths have been started, the vibration path first.
EnteredFrom(pr, tl, a, ver, ch) ==
    LET s0 == [prog |-> pr,
               log |-> [t \in Threads |-> << >>],
               status |-> [t \in Threads |-> "idle"],
               ip |-> [t \in Threads |-> 0],
               att |-> [t \in Threads |-> 0],
               rets |-> << >>,
               successfulApproach |-> "",
               response |-> [kind |-> "none", text |-> << >>],
               overlap |-> {},
               channels |-> ch,
               console |-> IF tl = "Combo" /\ a.syncMode = "independent"
                              /\ ver = ORIGINAL
                           THEN << FallbackNotice >> ELSE << >>]
    IN  IF s0.prog["main"][1].op = "join"
        THEN Issue(Continue(Continue(s0, "vib", 1), "vac", 1), "main", 1)
        ELSE Continue(s0, "main", 1)

EnteredWith(tl, a, ver, ch) ==
    EnteredFrom([t \in Threads |-> Program(tl, a, ver, t)], tl, a, ver, ch)

\* A device that has just been connected is at rest.
AtRest == [vibration |-> Zero, vacuum |-> Zero]

Entered == EnteredWith(tool, args, deviceVersion, AtRest)

\* What a device reports: a list of objects, each with an ActuatorType.
Attribute(type) == [kind |-> "object", ActuatorType |-> type]
NullItem == [kind |-> "null", ActuatorType |-> "undefined"]
Attributes(items) ==
    [kind |-> "object", ScalarCmd |-> [kind |-> "array", items |-> items]]

\* The Original Sam Neo reports two vibrators, the Neo2 series a vibrator
\* and a constrictor.
KnownDevices ==
    {Attributes(<< Attribute("Vibrate"), Attribute("Vibrate") >>),
     Attributes(<< Attribute("Vibrate"), Attribute("Constrict") >>)}

\* The first invocation after startup, of the tool and with the arguments
\* chosen.
Serving(budget) ==
    /\ messageAttributes \in KnownDevices
    /\ startup = "serving"
    /\ deviceVersion = detectSamNeoVersion(messageAttributes)
    /\ faults = budget
    /\ served = << >>
    /\ abandoned = FALSE

Load(e) ==
    /\ prog = e.prog
    /\ channels = e.channels
    /\ log = e.log
    /\ status = e.status
    /\ ip = e.ip
    /\ att = e.att
    /\ rets = e.rets
    /\ successfulApproach = e.successfulApproach
    /\ response = e.response
    /\ console = e.console
    /\ overlap = e.overlap

Start(budget) == Serving(budget) /\ Load(Entered)

InitWith(tls, budget) ==
    /\ tool \in tls
    /\ args \in ArgsOf(tool)
    /\ Start(budget)

Init == InitWith(Tools, MaxFaults)

\* ----------------------------------------------------------------- actions
InHelper(t) == Prog(t)[ip[t]].op = "call"
InDispatcher(t) == InHelper(t) /\ Prog(t)[ip[t]].fn \in Neo2Helpers

\* A failure is charged once per device call (once per dispatcher call).
MayFail(t) == att[t] > 1 \/ faults > 0
Charge(t) == faults' = IF att[t] > 1 THEN faults ELSE faults - 1

\* await device.scalar / vibrate / stop, issued directly by a handler, resolves.
CommandSucceeded(t) ==
    /\ status[t] = "awaiting"
    /\ ~InHelper(t)
    /\ Becomes(Continue(Settle(Now, t, "ok"), t, ip[t] + 1))
    /\ UNCHANGED faults

\* ... rejects: the error reaches the catch block of the handler.
CommandFailed(t) ==
    /\ status[t] = "awaiting"
    /\ ~InHelper(t)
    /\ MayFail(t)
    /\ Charge(t)
    /\ Becomes(Throw(Settle(Now, t, "error"), t,
                     DeviceError(log[t][Pending(Now, t)])))

\* The approach in flight resolves: the helper returns its label.
ApproachSucceeded(t) ==
    /\ status[t] = "awaiting"
    /\ InHelper(t)
    /\ LET ins == Prog(t)[ip[t]]
           label == HelperAttempt(ins, att[t]).label
           s1 == Settle(Now, t, "ok")
           s2 == [s1 EXCEPT !.rets = Append(@, label),
                            !.att[t] = 0,
                            !.successfulApproach =
                                IF ins.assign THEN label ELSE @]
       IN  Becomes(Continue(s2, t, ip[t] + 1))
    /\ UNCHANGED faults

\* The approach in flight rejects and another one is left: the dispatcher logs
\* the reason and tries the next approach.
ApproachFailed(t) ==
    /\ status[t] = "awaiting"
    /\ InDispatcher(t)
    /\ att[t] < Len(approaches(Prog(t)[ip[t]].fn, Zero))
    /\ MayFail(t)
    /\ Charge(t)
    /\ LET ins == Prog(t)[ip[t]]
           s1 == Settle(Now, t, "error")
           next == HelperAttempt(ins, att[t] + 1).cmd
       IN  Becomes([s1 EXCEPT
                      !.console = Append(@, DeviceError(log[t][Pending(Now, t)])),
                      !.log[t] = Append(@, Entry(next, ins.fn, t, Len(rets) + 1,
                                              "pending")),
                      !.att[t] = @ + 1,
                      !.overlap = Overlap(s1, t)])

\* The last approach rejects: the dispatcher throws its own Error.
AllApproachesFailed(t) ==
    /\ status[t] = "awaiting"
    /\ InDispatcher(t)
    /\ att[t] = Len(approaches(Prog(t)[ip[t]].fn, Zero))
    /\ MayFail(t)
    /\ Charge(t)
    /\ LET ins == Prog(t)[ip[t]]
           s1 == Settle(Now, t, "error")
           s2 == [s1 EXCEPT
                    !.console = Append(@, DeviceError(log[t][Pending(Now, t)])),
                    !.rets = Append(@, "throw"),
                    !.att[t] = 0]
       IN  Becomes(Throw(s2, t, HelperError(ins.fn)))

\* The combined command of an Original helper rejects: the helper logs the
\* reason and throws its own Error.
OriginalControlFailed(t) ==
    /\ status[t] = "awaiting"
    /\ InHelper(t) /\ ~InDispatcher(t)
    /\ MayFail(t)
    /\ Charge(t)
    /\ LET ins == Prog(t)[ip[t]]
           s1 == Settle(Now, t, "error")
           s2 == [s1 EXCEPT
                    !.console = Append(@, DeviceError(log[t][Pending(Now, t)])),
                    !.rets = Append(@, "throw"),
                    !.att[t] = 0]
       IN  Becomes(Throw(s2, t, HelperError(ins.fn)))

\* The timer of await new Promise(resolve => setTimeout(resolve, ms)) fires.
TimerFired(t) ==
    /\ status[t] = "sleeping"
    /\ Becomes(Continue(Now, t, ip[t] + 1))
    /\ UNCHANGED faults

Next ==
    \E t \in Threads :
        \/ CommandSucceeded(t)
        \/ CommandFailed(t)
        \/ ApproachSucceeded(t)
        \/ ApproachFailed(t)
        \/ AllApproachesFailed(t)
        \/ OriginalControlFailed(t)
        \/ TimerFired(t)

Spec == Init /\ [][Next]_vars

\* ------------------------------------------------------------ termination
\* One invocation of every tool in each of its modes and patterns.
ModeArgs(tl) ==
    CASE tl = "Piston" -> {Defaults}
      [] tl = "Vacuum" -> {[Defaults EXCEPT !.pattern = pt] :
                              pt \in {"constant", "pulse", "wave"}}
      [] tl = "Combo" ->
             {[Defaults EXCEPT !.syncMode = m] : m \in {"synchronized", "alternating"}}
             \cup {[Defaults EXCEPT !.syncMode = "independent", !.vacuumPattern = pt] :
                      pt \in {"constant", "pulse"}}
      [] tl = "ExtendedO" -> {[Defaults EXCEPT !.currentVibration = One,
                                               !.restoreDuration = r] : r \in {0, 500}}

FairInit ==
    /\ tool \in Tools
    /\ args \in ModeArgs(tool)
    /\ Start(MaxFaults)

\* Every device command is answered and every timer fires: as long as a
\* path is suspended, the event loop eventually resumes one.
FairSpec == FairInit /\ [][Next]_vars /\ WF_vars(Next)

\* ------------------------------------------- a session: several invocations
\* The arguments offered to the invocations of a session.
SessionArgs(tl) ==
    CASE tl = "Piston" -> {[Defaults EXCEPT !.vibrationPower = One]}
      [] tl = "Vacuum" -> {Defaults}
      [] tl = "Combo" -> {[Defaults EXCEPT !.syncMode = m] :
                            m \in {"synchronized", "independent"}}
      [] tl = "ExtendedO" -> {[Defaults EXCEPT !.currentVibration = One,
                                               !.currentVacuum = Rat(1, 2),
                                               !.restoreDuration = 0]}

SessionInit ==
    /\ tool \in Tools
    /\ args \in SessionArgs(tool)
    /\ Start(MaxFaults)

\* The handler has returned and no path of it is left running; the server
\* receives the next tool call and the handler runs to its first await.
NextInvocation ==
    /\ status["main"] = "returned"
    /\ \A t \in Threads : status[t] \notin {"awaiting", "sleeping"}
    /\ Len(served) + 1 < MaxInvocations
    /\ \E tl \in Tools :
          \E a \in SessionArgs(tl) :
             LET s == EnteredWith(tl, a, deviceVersion, channels)
             IN  /\ tool' = tl
                 /\ args' = a
                 /\ prog' = s.prog
                 /\ log' = s.log
                 /\ channels' = s.channels
                 /\ status' = s.status
                 /\ ip' = s.ip
                 /\ att' = s.att
                 /\ rets' = s.rets
                 /\ successfulApproach' = s.successfulApproach
                 /\ response' = s.response
                 /\ console' = s.console
                 /\ overlap' = s.overlap
    /\ served' = Append(served, response.kind)
    /\ UNCHANGED << messageAttributes, startup, deviceVersion, faults,
                    abandoned >>

SessionNext == Next \/ NextInvocation

SessionSpec == SessionInit /\ [][SessionNext]_vars

\* --------------------------------------------- an invocation is abandoned
\* The caller cancels the request or stops waiting for it.  The handlers take
\* the tool arguments only: nothing the caller does reaches the function that
\* is running, so no path of it changes its course.
Abandon ==
    /\ status["main"] # "returned"
    /\ ~abandoned
    /\ abandoned' = TRUE
    /\ UNCHANGED << messageAttributes, startup, tool, deviceVersion, args, prog,
                    status, ip, att, log, rets, successfulApproach, response,
                    console, overlap, faults, channels, served >>

CancelNext == Next \/ Abandon

CancelSpec == SessionInit /\ [][CancelNext]_vars

\* ----------------------------------------------------- startup: detection
\* main() has connected to a device and is about to detect its version.
ItemInputs ==
    {NullItem} \cup {Attribute(type) :
                        type \in {"Vibrate", "Constrict", "Oscillate", "undefined"}}

AttributeInputs ==
    {[kind |-> "undefined", ScalarCmd |-> [kind |-> "undefined", items |-> << >>]]}
    \cup {[kind |-> "object", ScalarCmd |-> [kind |-> k, items |-> << >>]] :
             k \in {"undefined", "string"}}
    \cup {Attributes(items) :
             items \in UNION {[1..n -> ItemInputs] : n \in 0..MaxAttrs}}

NoInvocation ==
    /\ tool = "none"
    /\ args = Defaults
    /\ faults = 0
    /\ prog = [t \in Threads |-> << >>]
    /\ log = [t \in Threads |-> << >>]
    /\ status = [t \in Threads |-> "idle"]
    /\ ip = [t \in Threads |-> 0]
    /\ att = [t \in Threads |-> 0]
    /\ rets = << >>
    /\ successfulApproach = ""
    /\ response = [kind |-> "none", text |-> << >>]
    /\ console = << >>
    /\ overlap = {}
    /\ channels = AtRest
    /\ served = << >>
    /\ abandoned = FALSE

DetectInit ==
    /\ messageAttributes \in AttributeInputs
    /\ startup = "connected"
    /\ deviceVersion = "undetected"
    /\ NoInvocation

\* detectSamNeoVersion returns and the tools are created.
Detected ==
    /\ startup = "connected"
    /\ detectSamNeoVersion(messageAttributes) \in SamNeoVersion
    /\ deviceVersion' = detectSamNeoVersion(messageAttributes)
    /\ startup' = "serving"
    /\ UNCHANGED << messageAttributes, tool, args, prog, status, ip, att, log, rets,
                    successfulApproach, response, console, overlap, faults,
                    channels, served, abandoned >>

\* detectSamNeoVersion throws: main() rejects and the process exits.
DetectThrew ==
    /\ startup = "connected"
    /\ detectSamNeoVersion(messageAttributes) = "TypeError"
    /\ startup' = "exited"
    /\ UNCHANGED << messageAttributes, deviceVersion, tool, args, prog, status, ip,
                    att, log, rets, successfulApproach, response, console, overlap,
                    faults, channels, served, abandoned >>

DetectNext == Detected \/ DetectThrew

DetectSpec == DetectInit /\ [][DetectNext]_vars

\* --------------------------------- the Extended-O levels as numbers compute
\* The minimum levels offered: the representable numbers of two binades
\* below the schema's maximum of 0.3.
RoundedLevels ==
    {Rat(m, 2 ^ (Precision + b)) :
        m \in (2 ^ (Precision - 1))..(2 ^ Precision - 1), b \in {2, 3}}

NumberArgs ==
    {[Defaults EXCEPT !.currentVibration = cv[1], !.currentVacuum = cv[2],
                      !.minimumLevel = m, !.restoreDuration = r] :
        cv \in {<< One, Zero >>, << Zero, One >>},
        m \in RoundedLevels, r \in {0, 500}}

\* One invocation of Svakom-Sam-Neo-ExtendedO whose gradual restore is
\* computed in the rounded arithmetic.
NumberInit ==
    /\ tool = "ExtendedO"
    /\ args \in NumberArgs
    /\ Serving(MaxFaults)
    /\ prog = [t \in Threads |->
                 IF t = "main" THEN ExtendedOHandlerRounded(args, deviceVersion)
                 ELSE << >>]
    /\ Load(EnteredFrom(prog, tool, args, deviceVersion, AtRest))

NumberNext ==
    \E t \in Threads :
        \/ CommandSucceeded(t)
        \/ CommandFailed(t)
        \/ ApproachSucceeded(t)
        \/ ApproachFailed(t)
        \/ AllApproachesFailed(t)
        \/ TimerFired(t)

NumberSpec == NumberInit /\ [][NumberNext]_vars

\* ============================================================== properties
Range(q) == {q[k] : k \in 1..Len(q)}
IsPrefix(p, q) == Len(p) <= Len(q) /\ \A k \in 1..Len(p) : p[k] = q[k]

\* What a log entry does to the device: <<channel, value, second value>>.
Effect(e) ==
    CASE e.op = "sleep" -> << "sleep", e.a, Zero >>
      [] e.op = "vibrate" -> << "both", e.a, e.b >>
      [] e.op = "stop" -> << "halt", Zero, Zero >>
      [] e.op = "scalar" /\ e.act = "Vibrate" -> << "vibration", e.a, Zero >>
      [] OTHER -> << "vacuum", e.a, Zero >>

Accepted(e) == e.ok = "ok"
IsCommand(e) == e.op # "sleep"

\* The effects of the commands the device accepted and of the timers set by
\* the handler itself, in order.
Effective ==
    LET q == SelectSeq(log["main"], Accepted)
    IN  [k \in 1..Len(q) |-> Effect(q[k])]

AllEntries == log["main"] \o log["vib"] \o log["vac"]
NoFailure == \A e \in Range(AllEntries) : e.ok # "error"
CommandsSent == Len(SelectSeq(AllEntries, IsCommand))
Returned == status["main"] = "returned"
Succeeded == response.kind = "ok"
IndependentNeo2 ==
    tool = "Combo" /\ args.syncMode = "independent" /\ deviceVersion = NEO2_SERIES

\* ---------------------------------------------------------------------- C1
\* The fixed order of the encodings, as the claim states it.
Chain ==
    << [op |-> "scalar", index |-> 1, act |-> "Constrict", label |-> "Constrict"],
       [op |-> "linear", index |-> -1, act |-> "Linear", label |-> "Linear"],
       [op |-> "scalar", index |-> 1, act |-> "Inflate", label |-> "Inflate-Index1"],
       [op |-> "scalar", index |-> 0, act |-> "Inflate", label |-> "Inflate-Index0"] >>

DispatcherCalls == {e.call : e \in {x \in Range(AllEntries) : x.fn \in Neo2Helpers}}
Attempts(c) == LET OfCall(e) == e.call = c IN SelectSeq(AllEntries, OfCall)

\* C1: in every dispatcher call the encodings are attempted in the order
\* Constrict@1, Linear, Inflate@1, Inflate@0; every attempt before the last
\* one failed; a call that returned a label returned the label of its last
\* attempt, which succeeded, so that no later encoding was attempted.
C1_FallbackOrder ==
    \A c \in DispatcherCalls :
        LET A == Attempts(c)
            n == Len(A)
        IN  /\ n <= Len(Chain)
            /\ \A k \in 1..n :
                   /\ A[k].op = Chain[k].op
                   /\ A[k].index = Chain[k].index
                   /\ A[k].act = Chain[k].act
                   /\ A[k].a = A[1].a
                   /\ k < n => A[k].ok = "error"
            /\ c <= Len(rets) =>
                   IF rets[c] = "throw"
                   THEN n = Len(Chain) /\ A[n].ok = "error"
                   ELSE A[n].ok = "ok" /\ rets[c] = Chain[n].label

\* Encodings 1 and 2 failed, 3 succeeded: "Inflate-Index1", no fourth attempt.
C1_Witness ==
    \E c \in DispatcherCalls :
        /\ c <= Len(rets)
        /\ rets[c] = "Inflate-Index1"
        /\ Len(Attempts(c)) = 3

\* ---------------------------------------------------------------------- C2
\* The invocation ends with a stop of both channels: a halt, a combined
\* command of two zeros, or a Vibrate 0 followed by a vacuum dispatch of 0.
EndsWithStopAll ==
    LET L == log["main"]
        n == Len(L)
    IN  /\ n > 0
        /\ \/ L[n].op = "stop"
           \/ L[n].op = "vibrate" /\ L[n].a = Zero /\ L[n].b = Zero
           \/ /\ L[n].fn \in Neo2Helpers
              /\ L[n].a = Zero
              /\ \E j \in 1..(n - 1) :
                    /\ L[j].op = "scalar" /\ L[j].act = "Vibrate" /\ L[j].a = Zero
                    /\ \A k \in (j + 1)..n : L[k].call = L[n].call

\* C2: on every exit path of a handler, the last thing it did to the device
\* is a stop of both channels.
C2_StopOnEveryExit == Returned => EndsWithStopAll

\* ---------------------------------------------------------------------- C3
\* C3: in the independent mode on a Neo2 device the handler sends its final
\* stop only after both paths have run all their statements and every command
\* of theirs has been answered.
C3_StopAfterBothPaths ==
    (IndependentNeo2 /\ Len(log["main"]) > 0) =>
        \A t \in {"vib", "vac"} :
            /\ status[t] = "done"
            /\ ip[t] = Len(prog[t])
            /\ \A e \in Range(log[t]) : e.ok # "pending"

\* Each path has sent a command during a timer of the other one, and the
\* handler has then stopped both channels and returned.
C3_Witness ==
    IndependentNeo2 /\ overlap = {"vib", "vac"} /\ Succeeded /\ EndsWithStopAll

\* ---------------------------------------------------------------------- C4
\* C4: once the handler has returned its response, no further command of the
\* invocation is sent to the device.
C4_NoCommandAfterResponse == [][Returned => CommandsSent' = CommandsSent]_vars

\* ---------------------------------------------------------------------- C5
FourReasons ==
    {"Constrict rejected", "LinearCmd rejected", "Inflate@1 rejected",
     "Inflate@0 rejected"}

\* C5: when a dispatcher call has failed with all four encodings, the error
\* response of the invocation carries the failure reason of each attempt.
C5_ReasonsInResponse ==
    (Returned /\ Len(rets) > 0 /\ rets[Len(rets)] = "throw"
       /\ deviceVersion = NEO2_SERIES) =>
        /\ response.kind = "error"
        /\ FourReasons \subseteq Range(response.text)

\* ---------------------------------------------------------------------- C6
\* C6: the response of an independent Combo on an Original device contains
\* the notice that the mode was demoted to synchronized.
C6_FallbackNoticeInResponse ==
    (tool = "Combo" /\ args.syncMode = "independent" /\ deviceVersion = ORIGINAL
       /\ Succeeded) =>
        FallbackNotice \in Range(response.text)

\* ---------------------------------------------------------------------- C7
SynchronizedExpected ==
    LET n == args.steps
    IN  [k \in 1..(3 * n + 2) |->
           LET i == (k - 1) \div 3
           IN  IF k = 3 * n + 1 THEN << "vibration", Zero, Zero >>
               ELSE IF k = 3 * n + 2 THEN << "vacuum", Zero, Zero >>
               ELSE CASE (k - 1) % 3 = 0 ->
                           << "vibration", Mul(Rat(i, n), args.vibrationPower), Zero >>
                      [] (k - 1) % 3 = 1 ->
                           << "vacuum", Mul(Rat(i, n), args.vacuumIntensity), Zero >>
                      [] (k - 1) % 3 = 2 ->
                           << "sleep", Rat(args.duration, n), Zero >>]

\* C7: a synchronized Combo on a Neo2 device sets, for i = 0..steps-1 in this
\* order, the vibration to (i/steps)*vibrationPower, the vacuum to
\* (i/steps)*vacuumIntensity and a timer of duration/steps, and after the last
\* step stops both channels; without a command failure that is one command
\* per setting.
C7_SynchronizedSchedule ==
    (tool = "Combo" /\ args.syncMode = "synchronized"
       /\ deviceVersion = NEO2_SERIES) =>
        /\ IsPrefix(Effective, SynchronizedExpected)
        /\ Succeeded => Effective = SynchronizedExpected
        /\ (Succeeded /\ NoFailure) => Len(log["main"]) = 3 * args.steps + 2

C7_Witness ==
    /\ tool = "Combo" /\ args.syncMode = "synchronized"
    /\ deviceVersion = NEO2_SERIES
    /\ args.steps = MaxSteps /\ Succeeded /\ NoFailure

\* ---------------------------------------------------------------------- C8
AlternatingExpected ==
    LET n == args.steps
        vib(i) == Mul(Rat(i, n), args.vibrationPower)
        vac(i) == Mul(Sub(One, Rat(i, n)), args.vacuumIntensity)
        delay == << "sleep", Rat(args.duration, n), Zero >>
    IN  IF deviceVersion = ORIGINAL
        THEN [k \in 1..(2 * n) |->
                LET i == (k - 1) \div 2
                IN  IF (k - 1) % 2 = 0 THEN << "both", vib(i), vac(i) >> ELSE delay]
        ELSE [k \in 1..(3 * n) |->
                LET i == (k - 1) \div 3
                IN  CASE (k - 1) % 3 = 0 -> << "vibration", vib(i), Zero >>
                      [] (k - 1) % 3 = 1 -> << "vacuum", vac(i), Zero >>
                      [] (k - 1) % 3 = 2 -> delay]

\* C8: in the alternating mode step i sets the vibration to
\* (i/steps)*vibrationPower and the vacuum to (1 - i/steps)*vacuumIntensity,
\* both before the timer of that step, on both device versions.
C8_AlternatingSchedule ==
    (tool = "Combo" /\ args.syncMode = "alternating") =>
        /\ \A k \in 1..Len(Effective) :
               k <= Len(AlternatingExpected) => Effective[k] = AlternatingExpected[k]
        /\ Succeeded => Len(Effective) > Len(AlternatingExpected)

C8_Witness ==
    /\ tool = "Combo" /\ args.syncMode = "alternating"
    /\ args.steps = MaxSteps /\ Succeeded

\* ---------------------------------------------------------------- C9, C10
\* Both channels set once: to v1 (vibration) and v2 (vacuum).
BothSet(v1, v2) ==
    IF deviceVersion = ORIGINAL
    THEN << << "both", v1, v2 >> >>
    ELSE << << "vibration", v1, Zero >>, << "vacuum", v2, Zero >> >>

DropAndHold ==
    BothSet(args.minimumLevel, args.minimumLevel)
    \o << << "sleep", Num(args.holdDuration), Zero >> >>

InstantExpected ==
    DropAndHold \o BothSet(args.currentVibration, args.currentVacuum)

\* The commands sent before the hold timer was set.
BeforeHold ==
    LET L == log["main"]
        h == CHOOSE k \in 1..Len(L) : L[k].op = "sleep"
             /\ \A j \in 1..(k - 1) : L[j].op # "sleep"
    IN  SubSeq(L, 1, h - 1)

Holding == \E e \in Range(log["main"]) : e.op = "sleep"

\* C9 as stated: with restoreDuration = 0 exactly two drop commands are sent,
\* one per channel, before the hold.
C9_TwoDropCommands ==
    (tool = "ExtendedO" /\ args.restoreDuration = 0 /\ Holding) =>
        /\ Len(BeforeHold) = 2
        /\ Effect(BeforeHold[1]) = << "vibration", args.minimumLevel, Zero >>
        /\ Effect(BeforeHold[2]) = << "vacuum", args.minimumLevel, Zero >>

\* C9 as amended: with restoreDuration = 0 each channel is set to
\* minimumLevel once (Neo2: a Vibrate command and a vacuum dispatch; Original:
\* one combined command), then the hold timer is set, then both channels are
\* set to currentVibration and currentVacuum, and no other timer is set;
\* without a command failure that is one command per setting.
C9_InstantRestore ==
    (tool = "ExtendedO" /\ args.restoreDuration = 0) =>
        /\ IsPrefix(Effective, InstantExpected)
        /\ Succeeded => Effective = InstantExpected
        /\ (Succeeded /\ NoFailure) => Len(log["main"]) = Len(InstantExpected)
        /\ status["main"] = "sleeping" =>
               Effective = DropAndHold /\ log["main"][Len(log["main"])].op = "sleep"

C9_Witness ==
    /\ tool = "ExtendedO" /\ args.restoreDuration = 0 /\ Succeeded
    /\ deviceVersion = NEO2_SERIES /\ NoFailure
    /\ Len(BeforeHold) = 2

GradualExpected ==
    LET step == [k \in 1..10 |->
                   BothSet(Add(args.minimumLevel,
                               DivInt(Mul(Num(k), Sub(args.currentVibration,
                                                      args.minimumLevel)), 10)),
                           Add(args.minimumLevel,
                               DivInt(Mul(Num(k), Sub(args.currentVacuum,
                                                      args.minimumLevel)), 10)))
                   \o << << "sleep", Rat(args.restoreDuration, 10), Zero >> >>]
    IN  DropAndHold \o ForLoop(step, 1, 10)

FailedBeforeRestore ==
    tool = "ExtendedO" /\ Returned /\ response.kind = "error" /\ ~Holding

\* A command that sets the vibration channel to its level before the drop.
IsRestore(e) ==
    /\ e.op \in {"vibrate", "scalar"}
    /\ e.act = "Vibrate"
    /\ e.a = args.currentVibration

\* C11: an Extended-Hold invocation that failed in its drop or hold phase has
\* attempted, after the failure, to set the channels to their levels before
\* the drop.
C11_RestoreAfterFailure ==
    FailedBeforeRestore =>
        \E k \in 1..Len(log["main"]) :
            /\ IsRestore(log["main"][k])
            /\ \E j \in 1..(k - 1) : log["main"][j].ok = "error"

\* --------------------------------------------------------------------- C12
\* The ActuatorType tags of the reported list that equal type.
Tagged(type) ==
    {k \in 1..Len(messageAttributes.ScalarCmd.items) :
        messageAttributes.ScalarCmd.items[k].ActuatorType = type}

ConstrictAndOneVibrate ==
    /\ messageAttributes.kind = "object"
    /\ messageAttributes.ScalarCmd.kind = "array"
    /\ Tagged("Constrict") # {}
    /\ Cardinality(Tagged("Vibrate")) = 1

\* C12: the version detected is NEO2_SERIES exactly when the ScalarCmd list
\* holds a Constrict and exactly one Vibrate, and ORIGINAL in every other case
\* in which the detection returns; the tag is a function of the attributes.
C12_DetectionTag ==
    startup = "serving" =>
        deviceVersion = IF ConstrictAndOneVibrate THEN NEO2_SERIES ELSE ORIGINAL

\* A full-length list with a Constrict and one Vibrate was detected as Neo2.
C12_Witness ==
    /\ startup = "serving" /\ tool = "none"
    /\ deviceVersion = NEO2_SERIES
    /\ Len(messageAttributes.ScalarCmd.items) = MaxAttrs

\* --------------------------------------------------------------------- C13
Malformed ==
    \/ messageAttributes.kind # "object"
    \/ messageAttributes.ScalarCmd.kind # "array"
    \/ \E k \in 1..Len(messageAttributes.ScalarCmd.items) :
          \/ messageAttributes.ScalarCmd.items[k].kind # "object"
          \/ messageAttributes.ScalarCmd.items[k].ActuatorType = "undefined"

\* C13: for every missing or malformed attribute input the detection
\* terminates without an error and returns ORIGINAL.
C13_DetectionNeverThrows ==
    (Malformed /\ startup # "connected") =>
        startup = "serving" /\ deviceVersion = ORIGINAL

\* --------------------------------------------------------------------- C14
\* A command was rejected and no fallback of a dispatcher made up for it.
UnabsorbedFailure ==
    \E e \in Range(AllEntries) :
        /\ e.ok = "error"
        /\ \/ e.call = 0
           \/ e.call <= Len(rets) /\ rets[e.call] = "throw"

\* C14: a rejected command that no fallback makes up for ends the invocation
\* with an error response, and an invocation without one ends with a success
\* response; the server keeps serving, and every later invocation on the
\* same device sends its commands.
C14_FailureBecomesResponse ==
    /\ startup = "serving"
    /\ UnabsorbedFailure => Returned /\ response.kind = "error"
    /\ (Returned /\ ~UnabsorbedFailure) => response.kind = "ok"
    /\ served # << >> => CommandsSent > 0

\* The invocation before this one ended with an error response, and this one
\* has had all its commands accepted and has returned its success response.
C14_Witness ==
    /\ served = << "error" >>
    /\ Succeeded /\ NoFailure
    /\ CommandsSent > 0

\* --------------------------------------------------------------------- C15
\* C15: the combined command that executeOriginalVacuumControl sends carries,
\* for the vibration channel, the level that channel is at, so that a vacuum
\* command leaves the vibration unchanged.
C15_VibrationHeld ==
    \A e \in Range(log["main"]) :
        (e.fn = "vacuum.executeOriginalVacuumControl" /\ e.ok = "pending") =>
            e.a = channels.vibration

\* --------------------------------------------------------------------- C16
Rejected(e) == e.ok = "error"

\* C16: every dispatcher call starts at Constrict@1, whatever the calls
\* before it returned, and makes one attempt more than the device rejected
\* in that call (four when it rejected all four).
C16_NoMemoryBetweenCalls ==
    \A c \in DispatcherCalls :
        LET A == Attempts(c)
            r == Len(SelectSeq(A, Rejected))
        IN  /\ A[1].op = "scalar" /\ A[1].act = "Constrict" /\ A[1].index = 1
            /\ Len(A) = IF r = Len(Chain) \/ A[Len(A)].ok = "error" THEN r ELSE r + 1

\* A call succeeded with the second encoding, and a later call has started
\* at, and succeeded with, the first one.
C16_Witness ==
    \E c \in DispatcherCalls :
        /\ c > 1 /\ c <= Len(rets)
        /\ rets[c] = "Constrict"
        /\ \E b \in 1..(c - 1) : rets[b] = "Linear"

\* --------------------------------------------------------------------- C17
\* Sample i = k - 1 of a ramp towards target.
RampValue(target, k) == Mul(target, Rat(k - 1, args.steps))
RampHold == << "sleep", Rat(args.duration, args.steps), Zero >>

IsRamp == tool = "Piston" \/ (tool = "Combo" /\ args.syncMode = "synchronized")

\* The ramp as the tools step it.  Piston on an Original device ramps the
\* second channel towards 1 and holds vibrationPower on the first.
RampExpected ==
    LET step == [k \in 1..args.steps |->
                   CASE tool = "Piston" /\ deviceVersion = ORIGINAL ->
                          << << "both", args.vibrationPower, RampValue(One, k) >>,
                             RampHold >>
                     [] tool = "Piston" /\ deviceVersion # ORIGINAL ->
                          << << "vibration", RampValue(args.vibrationPower, k), Zero >>,
                             RampHold >>
                     [] tool = "Combo" /\ deviceVersion = ORIGINAL ->
                          << << "both", RampValue(args.vibrationPower, k),
                                RampValue(args.vacuumIntensity, k) >>,
                             RampHold >>
                     [] OTHER ->
                          << << "vibration", RampValue(args.vibrationPower, k), Zero >>,
                             << "vacuum", RampValue(args.vacuumIntensity, k), Zero >>,
                             RampHold >>]
    IN  ForLoop(step, 1, args.steps)

\* The last command of the ramp, the level it ramps and that level's target.
LastSample == Effective[Len(RampExpected) - 1]
LastValue == IF LastSample[1] = "both" THEN LastSample[3] ELSE LastSample[2]
LastTarget ==
    CASE tool = "Piston" /\ deviceVersion = ORIGINAL -> One
      [] tool = "Piston" /\ deviceVersion # ORIGINAL -> args.vibrationPower
      [] OTHER -> args.vacuumIntensity

Stepped ==
    IF Len(Effective) < Len(RampExpected) THEN Len(Effective) ELSE Len(RampExpected)

\* C17 as stated: the ramp has steps samples target*(i/steps), each held for
\* duration/steps, and its last sample is never the target itself.
C17_NeverTarget ==
    (IsRamp /\ Succeeded) =>
        /\ SubSeq(Effective, 1, Len(RampExpected)) = RampExpected
        /\ LastValue # LastTarget

\* C17 as amended: the ramp has exactly steps samples, sample i is
\* target*(i/steps) and is held for duration/steps, the levels never decrease,
\* and the last one is target*(steps-1)/steps, which is below the target
\* unless the target is 0.
C17_Ramp ==
    IsRamp =>
        /\ \A k \in 1..Stepped : Effective[k] = RampExpected[k]
        /\ \A j, k \in 1..Stepped :
               (j < k /\ Effective[j][1] = Effective[k][1]) =>
                   Leq(Effective[j][2], Effective[k][2])
                   /\ Leq(Effective[j][3], Effective[k][3])
        /\ Succeeded =>
               /\ Len(Effective) > Len(RampExpected)
               /\ Len(SelectSeq(Effective, LAMBDA x : x[1] = "sleep")) = args.steps
               /\ LastValue = Mul(LastTarget, Rat(args.steps - 1, args.steps))
               /\ LastTarget # Zero =>
                      Leq(LastValue, LastTarget) /\ LastValue # LastTarget

C17_Witness ==
    /\ tool = "Piston" /\ Succeeded
    /\ args.steps = MaxSteps /\ args.vibrationPower = Zero
    /\ LastValue = LastTarget

\* --------------------------------------------------------------------- C18
\* What path t has done to the device, accepted commands and timers only.
EffectiveOf(t) ==
    LET q == SelectSeq(log[t], Accepted)
    IN  [k \in 1..Len(q) |-> Effect(q[k])]

\* A vacuum level as the tool sets it (on an Original device the Vacuum tool
\* sends it with a vibration level of 0 in one combined command).
VacuumSet(v) ==
    IF deviceVersion = ORIGINAL THEN << "both", Zero, v >> ELSE << "vacuum", v, Zero >>

\* The pulse pattern: 2 * floor(duration / (2 * interval)) samples.
PulseExpected(intensity, duration, interval) ==
    [k \in 1..(4 * (duration \div (2 * interval))) |->
        CASE k % 4 = 1 -> VacuumSet(intensity)
          [] k % 4 = 3 -> VacuumSet(Zero)
          [] OTHER -> << "sleep", Num(interval), Zero >>]

IsVacuumPulse == tool = "Vacuum" /\ args.pattern = "pulse"
IsComboPulse == IndependentNeo2 /\ args.vacuumPattern = "pulse"

\* C18: the pulse pattern sets intensity, 0, intensity, 0, ..., each held for
\* pulseInterval, 2*floor(duration/(2*pulseInterval)) samples in all; what is
\* left of the duration is dropped.
C18_Pulse ==
    /\ IsVacuumPulse =>
           LET P == PulseExpected(args.intensity, args.duration, args.pulseInterval)
           IN  /\ \A k \in 1..Len(Effective) : k <= Len(P) => Effective[k] = P[k]
               /\ Succeeded => Effective = Append(P, VacuumSet(Zero))
    /\ IsComboPulse =>
           LET P == PulseExpected(args.vacuumIntensity, args.duration,
                                  pulseIntervalCombo)
           IN  /\ IsPrefix(EffectiveOf("vac"), P)
               /\ status["vac"] = "done" => EffectiveOf("vac") = P

\* A pulse of 1500 ms at an interval of 500 ms: one cycle, 500 ms dropped.
C18_Witness ==
    /\ IsVacuumPulse /\ Succeeded
    /\ args.duration = 1500 /\ args.pulseInterval = 500
    /\ Len(SelectSeq(Effective, LAMBDA x : x[1] = "sleep")) = 2

\* --------------------------------------------------------------------- C19
Level(x) == IF x[1] = "both" THEN x[3] ELSE x[2]

\* E is a wave towards target: 2*(WaveSteps+1) samples, each a vacuum level
\* and its hold; the levels read the same in both directions, start and end
\* at 0 and peak at the target.
IsWave(E, target) ==
    LET n == 2 * (WaveSteps + 1)
    IN  /\ Len(E) = 2 * n
        /\ \A k \in 1..n :
               /\ E[2 * k - 1][1] \in {"vacuum", "both"}
               /\ E[2 * k] = << "sleep", Rat(args.duration, 2 * WaveSteps), Zero >>
               /\ Level(E[2 * k - 1]) = Level(E[2 * (n + 1 - k) - 1])
               /\ Leq(Level(E[2 * k - 1]), target)
        /\ Level(E[1]) = Zero
        /\ Level(E[2 * n - 1]) = Zero
        /\ \E k \in 1..n : Level(E[2 * k - 1]) = target

IsVacuumWave == tool = "Vacuum" /\ args.pattern = "wave"
IsComboWave == IndependentNeo2 /\ args.vacuumPattern = "wave"

\* C19: the wave pattern sets 2*(steps+1) levels that form a palindrome,
\* start and end at 0 and peak at the target intensity.
C19_Wave ==
    /\ (IsVacuumWave /\ Succeeded) =>
           /\ IsWave(SubSeq(Effective, 1, Len(Effective) - 1), args.intensity)
           /\ Effective[Len(Effective)] = VacuumSet(Zero)
    /\ (IsComboWave /\ status["vac"] = "done") =>
           IsWave(EffectiveOf("vac"), args.vacuumIntensity)

C19_Witness ==
    /\ IsComboWave /\ Succeeded /\ status["vac"] = "done"
    /\ Len(EffectiveOf("vac")) = 4 * (WaveSteps + 1)

\* C20: every intensity value a tool passes to a device command lies in the
\* closed interval [0, 1] (the second value of a linear command is a
\* duration, not an intensity).
InUnit(x) == Leq(Zero, x) /\ Leq(x, One)
Intensities(e) ==
    CASE e.op = "vibrate" -> {e.a, e.b}
      [] e.op \in {"scalar", "linear"} -> {e.a}
      [] OTHER -> {}
C20_LevelsInRange ==
    \A e \in Range(AllEntries) : \A x \in Intensities(e) : InUnit(x)

\* ---------------------------------------------------------------------- C21
\* C21: every successful response of an invocation that dispatched a vacuum
\* command names the encoding that succeeded for the vacuum channel (a label
\* of the fallback chain, or the label of the Original helper); the name is
\* never empty.
EncodingLabels ==
    {"Constrict", "Linear", "Inflate-Index1", "Inflate-Index0",
     "OriginalVibrate", "OriginalCombo"}
VacuumDispatched ==
    \E e \in Range(AllEntries) : e.fn \in Neo2Helpers \cup OriginalHelpers
NamesEncoding ==
    \E k \in 1..Len(response.text) : response.text[k] \in EncodingLabels
C21_EncodingNamed ==
    (Returned /\ Succeeded /\ VacuumDispatched) => NamesEncoding

\* ---------------------------------------------------------------------- C22
\* C22: the sample sequence a tool steps through is never empty: an
\* invocation that completed has issued at least one pattern command followed
\* by its hold before the final stop.
SampleIssued ==
    \E t \in Threads : \E k \in 1..(Len(log[t]) - 1) :
        IsCommand(log[t][k]) /\ log[t][k + 1].op = "sleep"
C22_SequenceNonEmpty == (Returned /\ Succeeded) => SampleIssued

\* ---------------------------------------------------------------------- C23
\* C23: within one dispatcher call, a failed attempt is followed by an
\* explicit zero or stop command before the next encoding is tried.
IsHalt(e) ==
    \/ e.op = "stop"
    \/ e.op \in {"scalar", "vibrate"} /\ e.call = 0 /\ e.a = Zero /\ e.b = Zero
FailedAttempt(e) == e.fn \in Neo2Helpers /\ Rejected(e)
C23_HaltBetweenAttempts ==
    \A t \in Threads : \A k \in 1..(Len(log[t]) - 1) :
        FailedAttempt(log[t][k]) => IsHalt(log[t][k + 1])

\* ---------------------------------------------------------------------- C24
\* C24: in the sequential modes a failed step is fatal and is not retried: a
\* rejected vibration (or combined) command, or the fourth rejected attempt
\* of a dispatcher call, is the last command of the invocation, which
\* returns the error response.
Sequential ==
    \/ tool \in {"Piston", "Vacuum"}
    \/ tool = "Combo" /\ args.syncMode \in {"synchronized", "alternating"}
Fatal(e) ==
    /\ Rejected(e)
    /\ e.fn \in Neo2Helpers =>
           /\ Len(Attempts(e.call)) = 4
           /\ e = Attempts(e.call)[4]
C24_FailureIsFatal ==
    Sequential =>
        \A k \in 1..Len(log["main"]) :
            Fatal(log["main"][k]) =>
                /\ k = Len(log["main"])
                /\ Returned
                /\ response.kind = "error"
\* The vibration command of a later step was accepted, its dispatcher call
\* saw all four encodings rejected, and steps were still to come.
C24_Witness ==
    /\ Sequential /\ tool = "Combo" /\ deviceVersion = NEO2_SERIES
    /\ Returned
    /\ \E e \in Range(log["main"]) : e.op = "sleep"
    /\ LET L == log["main"]
       IN  /\ Fatal(L[Len(L)]) /\ L[Len(L)].fn \in Neo2Helpers
           /\ Accepted(L[Len(L) - 4]) /\ L[Len(L) - 4].act = "Vibrate"
    /\ ip["main"] < Len(prog["main"]) - 3

\* ---------------------------------------------------------------------- C25
\* C25: a failure of the final stop is not re-raised: when the pattern
\* completed without a rejected command and only the stop was rejected, the
\* invocation returns its success response.
\* The statements of the final stop: one, or two on the Neo2 series in Combo.
StopLen == IF tool = "Combo" /\ deviceVersion = NEO2_SERIES THEN 2 ELSE 1
InStop == tool # "ExtendedO" /\ ip["main"] > Len(prog["main"]) - StopLen
LastSent == log["main"][Len(log["main"])]
OfStop(e) == e = LastSent \/ (e.call > 0 /\ e.call = LastSent.call)
OnlyStopFailed ==
    /\ Returned /\ InStop
    /\ Len(log["main"]) > 0 /\ Rejected(LastSent)
    /\ \A e \in Range(AllEntries) : Rejected(e) => OfStop(e)
C25_StopFailureNotRaised == OnlyStopFailed => Succeeded

\* ---------------------------------------------------------------------- C26
\* C26: on an Original device an independent Combo issues the same combined
\* commands and timers, in the same order, as a synchronized Combo with the
\* same duration, steps, vibrationPower and vacuumIntensity.
InsEffect(ins) ==
    IF ins.op = "call" THEN Effect(HelperAttempt(ins, 1).cmd) ELSE Effect(ins)
SynchronizedOnOriginal ==
    LET P == ComboSynchronized(args, ORIGINAL) \o ComboStop(ORIGINAL)
    IN  [k \in 1..Len(P) |-> InsEffect(P[k])]
IndependentOriginal ==
    tool = "Combo" /\ args.syncMode = "independent" /\ deviceVersion = ORIGINAL
C26_IndependentAsSynchronized ==
    IndependentOriginal =>
        /\ IsPrefix(Effective, SynchronizedOnOriginal)
        /\ Succeeded => Effective = SynchronizedOnOriginal

\* ---------------------------------------------------------------------- C27
\* C27: every sample of the wave pattern is held for duration/(2*steps) and
\* the holds of all its samples add up to the requested duration, not more.
RECURSIVE TotalHold(_)
TotalHold(E) ==
    IF E = << >> THEN Zero
    ELSE Add(IF Head(E)[1] = "sleep" THEN Head(E)[2] ELSE Zero, TotalHold(Tail(E)))
C27_WaveLastsDuration ==
    /\ (IsVacuumWave /\ Succeeded) => TotalHold(Effective) = Num(args.duration)
    /\ (IsComboWave /\ status["vac"] = "done") =>
           TotalHold(EffectiveOf("vac")) = Num(args.duration)

\* ---------------------------------------------------------------------- C28
\* C28: once the invocation has been abandoned it issues no further pattern
\* step: whatever a path sends or schedules afterwards is a stop of the
\* device or a zero level set by the handler itself.
Issued(t) == SubSeq(log'[t], Len(log[t]) + 1, Len(log'[t]))
C28_NoStepAfterAbandon ==
    [][abandoned => \A t \in Threads : \A e \in Range(Issued(t)) : IsHalt(e)]_vars

\* ---------------------------------------------------------------------- C29
\* C29: the Piston tool on a Neo2 device is vibration-only: step i sends one
\* scalar Vibrate command at index 0 with value (i/steps)*vibrationPower,
\* issued by the handler itself, never a vacuum command or a fallback
\* attempt; on both device versions a completed invocation has sent exactly
\* one device.stop, as its last command.
VibrateOnly(e, i) ==
    /\ e.op = "scalar" /\ e.act = "Vibrate" /\ e.index = 0
    /\ e.fn = "device" /\ e.call = 0
    /\ e.a = Mul(Rat(i, args.steps), args.vibrationPower)
StopsSent == Len(SelectSeq(log["main"], LAMBDA e : e.op = "stop"))
C29_PistonVibrationOnly ==
    tool = "Piston" =>
        LET L == log["main"]
        IN  /\ log["vib"] = << >> /\ log["vac"] = << >> /\ rets = << >>
            /\ deviceVersion = NEO2_SERIES =>
                   \A k \in 1..Len(L) :
                       IF k > 2 * args.steps THEN L[k].op = "stop"
                       ELSE IF k % 2 = 0 THEN L[k].op = "sleep"
                       ELSE VibrateOnly(L[k], (k - 1) \div 2)
            /\ Succeeded =>
                   /\ Len(L) = 2 * args.steps + 1
                   /\ StopsSent = 1
                   /\ L[Len(L)].op = "stop" /\ Accepted(L[Len(L)])
C29_Witness ==
    /\ tool = "Piston" /\ deviceVersion = NEO2_SERIES /\ Succeeded
    /\ args.steps = MaxSteps /\ args.vibrationPower = Rat(1, 2)
    /\ StopsSent = 1

\* ---------------------------------------------------------------------- C30
\* C30: every invocation terminates: if every command is answered and every
\* timer fires, the handler eventually returns and every path of it comes to
\* rest; a dispatcher call makes at most four attempts, and the response,
\* once returned, is the only one.
Quiescent ==
    Returned /\ \A t \in Threads : status[t] \notin {"awaiting", "sleeping"}
C30_Terminates ==
    /\ <>[]Quiescent
    /\ [](\A c \in DispatcherCalls : Len(Attempts(c)) <= 4)
    /\ [](Returned => response.kind \in {"ok", "error"})
    /\ [][Returned => response' = response]_vars
\* Both paths of an independent Combo have come to rest after a dispatcher
\* call that needed its fourth encoding.
C30_Witness ==
    /\ Quiescent /\ Succeeded /\ IndependentNeo2
    /\ \E c \in DispatcherCalls : Len(Attempts(c)) = 4

\* ---------------------------------------------------------------------- C31
\* C31: every level commanded on a channel during an Extended-O invocation
\* lies between the minimum level and the level of that channel before the
\* reduction, and the levels commanded move monotonically from the minimum
\* level toward it, also when it is below the minimum level.
\* The levels commanded on the vibration and on the vacuum channel, in order.
VibrationLevels ==
    LET q == SelectSeq(log["main"],
                       LAMBDA e : e.op = "vibrate"
                                  \/ (e.op = "scalar" /\ e.act = "Vibrate"))
    IN  [k \in 1..Len(q) |-> q[k].a]
VacuumLevels ==
    LET q == SelectSeq(log["main"],
                       LAMBDA e : e.op = "vibrate" \/ e.fn \in Neo2Helpers)
    IN  [k \in 1..Len(q) |-> IF q[k].op = "vibrate" THEN q[k].b ELSE q[k].a]
Toward(x, y, preDrop) ==
    IF Leq(args.minimumLevel, preDrop) THEN Leq(x, y) ELSE Leq(y, x)
BetweenAndMonotone(levels, preDrop) ==
    /\ \A k \in 1..Len(levels) :
           /\ Toward(args.minimumLevel, levels[k], preDrop)
           /\ Toward(levels[k], preDrop, preDrop)
    /\ \A k \in 1..(Len(levels) - 1) : Toward(levels[k], levels[k + 1], preDrop)
C31_LevelsBetween ==
    tool = "ExtendedO" =>
        /\ BetweenAndMonotone(VibrationLevels, args.currentVibration)
        /\ BetweenAndMonotone(VacuumLevels, args.currentVacuum)

\* ---------------------------------------------------------------------- C32
\* C32: the three copies of the Neo2 vacuum dispatcher are equivalent: what a
\* dispatcher call of any tool sends, attempt by attempt, is what each of the
\* three copies sends for that intensity; the label it returns is the label
\* each copy gives the encoding that was accepted; and it throws exactly when
\* all four encodings were rejected.
SameCommand(e, cmd) ==
    /\ e.op = cmd.op /\ e.index = cmd.index /\ e.act = cmd.act
    /\ e.a = cmd.a /\ e.b = cmd.b
AsEveryCopy(c) ==
    LET A == Attempts(c)
        last == A[Len(A)]
    IN  \A fn \in Neo2Helpers :
            /\ Len(A) <= Len(approaches(fn, A[1].a))
            /\ \A j \in 1..Len(A) :
                   /\ SameCommand(A[j], approaches(fn, A[1].a)[j].cmd)
                   /\ j < Len(A) => Rejected(A[j])
            /\ Len(rets) >= c =>
                   /\ Accepted(last) => rets[c] = approaches(fn, A[1].a)[Len(A)].label
                   /\ rets[c] = "throw" <=> (Len(A) = 4 /\ Rejected(last))
C32_DispatchersEquivalent == \A c \in DispatcherCalls : AsEveryCopy(c)
\* The copy of the Extended-O tool has returned the label of its third
\* encoding after the first two were rejected.
C32_Witness ==
    /\ tool = "ExtendedO"
    /\ \E c \in DispatcherCalls :
           /\ Len(Attempts(c)) = 3 /\ Len(rets) >= c
           /\ rets[c] = "Inflate-Index1"
           /\ Attempts(c)[1].a # Zero

====
